---- MODULE Spec2Model ----
(***************************************************************************)
(* Task-to-agent assignment: the routing-model formulation and the         *)
(* decoding of a solver assignment, for the two programs of the repository *)
(*   "simple": OR-SchedulingOptimisation.py (solve_task_assignment)        *)
(*   "pd"    : or-toolsOptimisation-pickAndDelievery.py (module body)      *)
(* The routing solver is an external engine: it is modelled as a search    *)
(* that may return any assignment satisfying the constraints the program   *)
(* posts on it, or no assignment at all.                                   *)
(*                                                                         *)
(* Python lists are 0-based; sequences here are 1-based, so At(s, i) reads *)
(* s[i] of the source.  Distances are floats in the source; here they are  *)
(* fixed-point numbers in 1/Scale of a unit, truncated.                    *)
(***************************************************************************)
EXTENDS Integers, Sequences, FiniteSets, TLC

VARIABLES
    variant,                  \* which of the two programs runs
    tasks, agents,            \* the input records
    locations,                \* the unified node list (coordinates)
    task_indices,             \* pd: <<location_index, task>> pairs
    pickup_delivery_indices,  \* pd: <<pickup_index, drop_index>> pairs
    distance_matrix,          \* locations x locations, fixed-point
    pc,                       \* "solve", "walk", "unassigned", "done", "nosolution"
    routes,                   \* the solver's assignment: per agent, its task nodes in order
    solution,                 \* NextVar values of the returned assignment
    agent_index, index, previous_index,
    route, total_distance, total_duration, last_location,
    visited_nodes,
    report,                   \* the per-agent output lines, in order
    unassigned_tasks

inputs == <<variant, tasks, agents, locations, task_indices,
            pickup_delivery_indices, distance_matrix>>
walk == <<agent_index, index, previous_index, route, total_distance,
          total_duration, last_location, visited_nodes>>
vars == <<inputs, pc, routes, solution, walk, report, unassigned_tasks>>

----------------------------------------------------------------------------
(* Bounds of the model *)

MaxAgents == 2
MaxTasks == 3

(* Fixed-point unit of a distance: two decimals, as the output prints it *)
Scale == 100

None == -1

At(s, i) == s[i + 1]

RECURSIVE Sum(_)
Sum(s) == IF s = <<>> THEN 0 ELSE Head(s) + Sum(Tail(s))

Range(s) == {s[i] : i \in 1..Len(s)}

(* every subsequence of pool with 1..max elements, in pool order *)
SubSeqs(pool, max) ==
    {SelectSeq(pool, LAMBDA x : x \in S) :
        S \in {T \in SUBSET Range(pool) : Cardinality(T) \in 1..max}}

----------------------------------------------------------------------------
(* Input records *)

L0 == <<12914142, 74856033>>
L1 == <<12971598, 77594566>>
L2 == <<12295810, 76639381>>
L3 == <<13082680, 80270721>>

SimpleTaskPool == <<
    [id |-> 0, type |-> "single", skill |-> "driver", location |-> L1,
     pincode |-> 560001, duration |-> 20],
    [id |-> 1, type |-> "single", skill |-> "driver", location |-> L2,
     pincode |-> 560002, duration |-> 100],
    [id |-> 2, type |-> "single", skill |-> "pre_inspection", location |-> L3,
     pincode |-> 560002, duration |-> 50],
    [id |-> 3, type |-> "single", skill |-> "driver", location |-> L2,
     pincode |-> 560001, duration |-> 50],
    [id |-> 4, type |-> "single", skill |-> "driver", location |-> L3,
     pincode |-> 560001, duration |-> 50] >>

SimpleAgentPool == <<
    [id |-> 0, skills |-> {"driver"}, location |-> L0, availability |-> 120,
     allowed_locations |-> {560001, 560002}],
    [id |-> 1, skills |-> {"pre_inspection"}, location |-> L0, availability |-> 120,
     allowed_locations |-> {560002}],
    [id |-> 2, skills |-> {"driver"}, location |-> L1, availability |-> 60,
     allowed_locations |-> {560001}] >>

PdTaskPool == <<
    [id |-> 0, type |-> "single", skill |-> "A", location |-> <<0, 0>>,
     duration |-> 50],
    [id |-> 1, type |-> "pickup_delivery", skill |-> "B",
     pickup_location |-> <<2, 2>>, drop_location |-> <<3, 1>>, duration |-> 50],
    [id |-> 2, type |-> "single", skill |-> "A", location |-> <<1, 3>>,
     duration |-> 50],
    [id |-> 3, type |-> "single", skill |-> "A", location |-> <<1, 4>>,
     duration |-> 50],
    [id |-> 4, type |-> "pickup_delivery", skill |-> "A",
     pickup_location |-> <<1, 3>>, drop_location |-> <<4, 4>>, duration |-> 20] >>

PdAgentPool == <<
    [id |-> 0, skills |-> {"A"}, location |-> <<1, 1>>, availability |-> 120],
    [id |-> 1, skills |-> {"B"}, location |-> <<4, 4>>, availability |-> 120],
    [id |-> 2, skills |-> {"A", "B"}, location |-> <<0, 0>>, availability |-> 120],
    [id |-> 3, skills |-> {"A", "B"}, location |-> <<4, 4>>, availability |-> 60] >>

----------------------------------------------------------------------------
(* GeoMetric *)

RECURSIVE ISqrtIn(_, _, _)
ISqrtIn(n, lo, hi) ==
    IF lo >= hi THEN lo
    ELSE LET mid == (lo + hi + 1) \div 2
         IN  IF mid * mid <= n THEN ISqrtIn(n, mid, hi) ELSE ISqrtIn(n, lo, mid - 1)

(* floor of the square root *)
ISqrt(n) == ISqrtIn(n, 0, IF n < 46340 THEN n ELSE 46340)

euclidean_distance(loc1, loc2) ==
    ISqrt(((loc1[1] - loc2[1]) * (loc1[1] - loc2[1])
           + (loc1[2] - loc2[2]) * (loc1[2] - loc2[2])) * Scale * Scale)

(* the great-circle distances (R = 6371.0 km) of the coordinates L0..L3,   *)
(* in 1/Scale km, as haversine_distance computes them                      *)
HaversineTable ==
    [p \in {L0, L1, L2, L3} |->
        CASE p = L0 -> [q \in {L0, L1, L2, L3} |->
                 CASE q = L0 -> 0 [] q = L1 -> 29684 [] q = L2 -> 20536 [] q = L3 -> 58694]
          [] p = L1 -> [q \in {L0, L1, L2, L3} |->
                 CASE q = L0 -> 29684 [] q = L1 -> 0 [] q = L2 -> 12801 [] q = L3 -> 29017]
          [] p = L2 -> [q \in {L0, L1, L2, L3} |->
                 CASE q = L0 -> 20536 [] q = L1 -> 12801 [] q = L2 -> 0 [] q = L3 -> 40351]
          [] p = L3 -> [q \in {L0, L1, L2, L3} |->
                 CASE q = L0 -> 58694 [] q = L1 -> 29017 [] q = L2 -> 40351 [] q = L3 -> 0]]

haversine_distance(loc1, loc2) == HaversineTable[loc1][loc2]

(* int(x) of a non-negative fixed-point distance *)
int(x) == x \div Scale

----------------------------------------------------------------------------
(* NodeRegistry *)

simple_locations(ag, ts) ==
    [i \in 1..Len(ag) |-> ag[i].location] \o [i \in 1..Len(ts) |-> ts[i].location]

(* the loop over tasks of the pd program: reg is                          *)
(* [locations, task_indices, pickup_delivery_indices] so far              *)
RECURSIVE pd_registry(_, _)
pd_registry(reg, ts) ==
    IF ts = <<>> THEN reg
    ELSE LET task == Head(ts)
             n == Len(reg.locations)
         IN  IF task.type = "pickup_delivery"
             THEN pd_registry(
                    [locations |-> reg.locations
                                   \o <<task.pickup_location, task.drop_location>>,
                     pickup_delivery_indices |->
                         Append(reg.pickup_delivery_indices, <<n, n + 1>>),
                     task_indices |->
                         reg.task_indices \o << <<n, task>>, <<n + 1, task>> >>],
                    Tail(ts))
             ELSE IF task.type = "single"
             THEN pd_registry(
                    [locations |-> Append(reg.locations, task.location),
                     pickup_delivery_indices |-> reg.pickup_delivery_indices,
                     task_indices |-> Append(reg.task_indices, <<n, task>>)],
                    Tail(ts))
             ELSE pd_registry(reg, Tail(ts))

pd_nodes(ag, ts) ==
    pd_registry([locations |-> [i \in 1..Len(ag) |-> ag[i].location],
                 pickup_delivery_indices |-> <<>>,
                 task_indices |-> <<>>], ts)

build_distance_matrix(locs) ==
    [i \in 1..Len(locs) |-> [j \in 1..Len(locs) |-> haversine_distance(locs[i], locs[j])]]

pd_distance_matrix(locs) ==
    [i \in 1..Len(locs) |-> [j \in 1..Len(locs) |-> euclidean_distance(locs[i], locs[j])]]

num_agents == Len(agents)
num_locations == Len(locations)

Agents == 0..(num_agents - 1)
TaskNodes == num_agents..(num_locations - 1)

----------------------------------------------------------------------------
Init ==
    /\ variant \in {"simple", "pd"}
    /\ agents \in IF variant = "simple" THEN SubSeqs(SimpleAgentPool, MaxAgents)
                  ELSE SubSeqs(PdAgentPool, MaxAgents)
    /\ tasks \in IF variant = "simple" THEN SubSeqs(SimpleTaskPool, MaxTasks)
                 ELSE SubSeqs(PdTaskPool, MaxTasks)
    /\ locations = IF variant = "simple" THEN simple_locations(agents, tasks)
                   ELSE pd_nodes(agents, tasks).locations
    /\ task_indices = IF variant = "simple" THEN <<>>
                      ELSE pd_nodes(agents, tasks).task_indices
    /\ pickup_delivery_indices = IF variant = "simple" THEN <<>>
                                 ELSE pd_nodes(agents, tasks).pickup_delivery_indices
    /\ distance_matrix = IF variant = "simple" THEN build_distance_matrix(locations)
                         ELSE pd_distance_matrix(locations)
    /\ pc = "solve"
    /\ routes = [a \in 1..Len(agents) |-> <<>>]
    /\ solution = <<>>
    /\ agent_index = 0
    /\ index = 0
    /\ previous_index = 0
    /\ route = <<>>
    /\ total_distance = 0
    /\ total_duration = 0
    /\ last_location = None
    /\ visited_nodes = {}
    /\ report = <<>>
    /\ unassigned_tasks = <<>>

----------------------------------------------------------------------------
(* RoutingIndexManager(len(locations), num_agents, start_nodes, end_nodes)  *)
(* with start_nodes = end_nodes = 0..num_agents-1: every node keeps its own *)
(* number as index, and vehicle v has the extra end index num_locations+v   *)

NodeToIndex(node) == node

IndexToNode(i) == IF i >= num_locations THEN i - num_locations ELSE i

Start(v) == v

End(v) == num_locations + v

IsEnd(i) == i >= num_locations

----------------------------------------------------------------------------
(* ConstraintModelBuilder *)

penalty == IF variant = "simple" THEN 5000 ELSE 1000

distance_callback(from_index, to_index) ==
    int(At(At(distance_matrix, IndexToNode(from_index)), IndexToNode(to_index)))

simple_demand_callback(from_index) ==
    LET from_node == IndexToNode(from_index)
    IN  IF from_node >= num_agents
        THEN At(tasks, from_node - num_agents).duration
        ELSE 0

RECURSIVE pd_demand_lookup(_, _)
pd_demand_lookup(ti, from_node) ==
    IF ti = <<>> THEN 0
    ELSE IF from_node = Head(ti)[1] THEN Head(ti)[2].duration
    ELSE pd_demand_lookup(Tail(ti), from_node)

(* variation: the duration is charged at the pickup node only *)
pd_demand_pickup_only(from_index) ==
    IF \E k \in 1..Len(pickup_delivery_indices) :
          pickup_delivery_indices[k][2] = IndexToNode(from_index)
    THEN 0
    ELSE pd_demand_lookup(task_indices, IndexToNode(from_index))

pd_demand_callback(from_index) ==
    pd_demand_lookup(task_indices, IndexToNode(from_index))

demand_callback(from_index) ==
    IF variant = "simple" THEN simple_demand_callback(from_index)
    ELSE pd_demand_callback(from_index)

(* variation: one capacity, the largest, for every vehicle *)
availabilities_shared ==
    [a \in 1..num_agents |->
        CHOOSE m \in {agents[b].availability : b \in 1..num_agents} :
            \A b \in 1..num_agents : agents[b].availability <= m]

availabilities == [a \in 1..num_agents |-> agents[a].availability]

(* variation: the pincode is not looked at *)
simple_removed_values_skill_only ==
    {<<NodeToIndex(num_agents + t - 1), a - 1>> :
        <<t, a>> \in {p \in (1..Len(tasks)) \X (1..Len(agents)) :
            tasks[p[1]].skill \notin agents[p[2]].skills}}

(* the <<index, vehicle>> pairs taken out by VehicleVar(index).RemoveValue *)
simple_removed_values ==
    {<<NodeToIndex(num_agents + t - 1), a - 1>> :
        <<t, a>> \in {p \in (1..Len(tasks)) \X (1..Len(agents)) :
            ~(tasks[p[1]].skill \in agents[p[2]].skills
              /\ tasks[p[1]].pincode \in agents[p[2]].allowed_locations)}}

pd_removed_values ==
    {<<NodeToIndex(task_indices[k][1]), a - 1>> :
        <<k, a>> \in {p \in (1..Len(task_indices)) \X (1..Len(agents)) :
            task_indices[p[1]][2].skill \notin agents[p[2]].skills}}

removed_values ==
    IF variant = "simple" THEN simple_removed_values ELSE pd_removed_values

(* variation: no pair is registered *)
pickup_delivery_pairs_none == <<>>

(* AddPickupAndDelivery(pickup, drop): the registered <<pickup, drop>> index pairs *)
pickup_delivery_pairs ==
    [k \in 1..Len(pickup_delivery_indices) |->
        <<NodeToIndex(pickup_delivery_indices[k][1]),
          NodeToIndex(pickup_delivery_indices[k][2])>>]

(* variation: the vehicle variables of pickup and drop are not bound *)
same_vehicle_pairs_none == <<>>

(* solver().Add(VehicleVar(pickup) == VehicleVar(drop)): the bound index pairs *)
same_vehicle_pairs ==
    [k \in 1..Len(pickup_delivery_indices) |->
        <<NodeToIndex(pickup_delivery_indices[k][1]),
          NodeToIndex(pickup_delivery_indices[k][2])>>]

(* variation: the loop starts one node late *)
simple_disjunctions_skip_first ==
    [k \in 1..(num_locations - num_agents - 1) |-> NodeToIndex(num_agents + k)]

(* AddDisjunction([index], penalty): one entry per call, in call order *)
simple_disjunctions ==
    [k \in 1..(num_locations - num_agents) |-> NodeToIndex(num_agents + k - 1)]

pd_disjunctions ==
    [k \in 1..Len(task_indices) |-> NodeToIndex(task_indices[k][1])]

disjunctions ==
    IF variant = "simple" THEN simple_disjunctions ELSE pd_disjunctions

----------------------------------------------------------------------------
(* SolverAdapter: what an assignment r (per vehicle, its visited indices in *)
(* order) means to the routing engine                                       *)

Visited(r) == UNION {Range(r[a]) : a \in 1..Len(r)}

Active(r, i) == i \in Visited(r)

(* the vehicle of a visited index, -1 for an index left out *)
VehicleVar(r, i) ==
    IF Active(r, i) THEN (CHOOSE a \in 1..Len(r) : i \in Range(r[a])) - 1 ELSE -1

Position(s, i) == CHOOSE k \in 1..Len(s) : s[k] = i

(* the cumulative demand on arrival at the k-th stop of path s, k = Len(s)+1 *)
(* being the end; it starts at exactly 0 and takes no slack                  *)
Cumul(s, k) == Sum([j \in 1..(k - 1) |-> demand_callback(s[j])])

CapacityOK(r) ==
    \A a \in 1..Len(r) : \A k \in 1..(Len(r[a]) + 1) :
        /\ Cumul(r[a], k) >= 0
        /\ Cumul(r[a], k) <= availabilities[a]

DomainOK(r) ==
    \A a \in 1..Len(r) : \A i \in Range(r[a]) : <<i, a - 1>> \notin removed_values

SameVehicleOK(r) ==
    \A k \in 1..Len(same_vehicle_pairs) :
        VehicleVar(r, same_vehicle_pairs[k][1]) = VehicleVar(r, same_vehicle_pairs[k][2])

PrecedenceOK(r) ==
    \A k \in 1..Len(pickup_delivery_pairs) :
        LET p == pickup_delivery_pairs[k][1]
            d == pickup_delivery_pairs[k][2]
        IN  \A a \in 1..Len(r) :
                (p \in Range(r[a]) /\ d \in Range(r[a]))
                    => Position(r[a], p) < Position(r[a], d)

(* an index in no disjunction has to be visited *)
MandatoryOK(r) ==
    \A i \in TaskNodes : Active(r, NodeToIndex(i)) \/ NodeToIndex(i) \in Range(disjunctions)

Feasible(r) ==
    /\ CapacityOK(r)
    /\ DomainOK(r)
    /\ SameVehicleOK(r)
    /\ PrecedenceOK(r)
    /\ MandatoryOK(r)

(* the index sequence of vehicle v (0-based): Start, its stops, End *)
Path(r, v) == <<Start(v)>> \o r[v + 1] \o <<End(v)>>

PathCost(p) == Sum([k \in 1..(Len(p) - 1) |-> distance_callback(p[k], p[k + 1])])

ArcCost(r) == Sum([a \in 1..Len(r) |-> PathCost(Path(r, a - 1))])

PenaltyCost(r) ==
    Sum([k \in 1..Len(disjunctions) |->
            IF Active(r, disjunctions[k]) THEN 0 ELSE penalty])

Objective(r) == ArcCost(r) + PenaltyCost(r)

(* NextVar values of assignment r, for the indices 0..num_locations-1 *)
NextVars(r) ==
    [n \in 1..num_locations |->
        LET i == n - 1
        IN  IF i < num_agents
            THEN At(Path(r, i), 1)
            ELSE IF Active(r, i)
                 THEN LET v == VehicleVar(r, i)
                          p == Path(r, v)
                      IN  At(p, Position(p, i))
                 ELSE i]

(* the search extends vehicle a's path by one more index *)
Insert(a, i) ==
    /\ pc = "solve"
    /\ ~Active(routes, i)
    /\ LET r == [routes EXCEPT ![a + 1] = Append(@, i)]
       IN  /\ CapacityOK(r)
           /\ DomainOK(r)
           /\ routes' = r
    /\ UNCHANGED <<inputs, pc, solution, walk, report, unassigned_tasks>>

(* solution = routing.SolveWithParameters(...), a solution found *)
SolveReturn ==
    /\ pc = "solve"
    /\ Feasible(routes)
    /\ solution' = NextVars(routes)
    /\ pc' = "walk"
    /\ agent_index' = 0
    /\ index' = Start(0)
    /\ route' = <<>>
    /\ total_distance' = 0
    /\ total_duration' = 0
    /\ last_location' = None
    /\ visited_nodes' = {}
    /\ UNCHANGED <<inputs, routes, previous_index, report, unassigned_tasks>>

(* solution = routing.SolveWithParameters(...), none found in the time limit *)
NoSolution ==
    /\ pc = "solve"
    /\ routes' = [a \in 1..num_agents |-> <<>>]
    /\ pc' = "nosolution"
    /\ UNCHANGED <<inputs, solution, walk, report, unassigned_tasks>>

----------------------------------------------------------------------------
(* SolutionDecoder, simple program *)

(* variation: the arc into the end index is added too *)
simple_arc_every(previous, nxt) ==
    At(At(distance_matrix, IndexToNode(previous)), IndexToNode(nxt))

(* what the walk adds to total_distance on the step from previous to nxt *)
simple_arc(previous, nxt) ==
    IF ~IsEnd(nxt)
    THEN At(At(distance_matrix, IndexToNode(previous)), IndexToNode(nxt))
    ELSE 0

SimpleWalkStep ==
    /\ pc = "walk" /\ variant = "simple"
    /\ ~IsEnd(index)
    /\ LET node == IndexToNode(index)
           nxt == At(solution, index)
       IN  /\ route' = IF node >= num_agents
                       THEN Append(route, At(tasks, node - num_agents).id)
                       ELSE route
           /\ total_duration' = IF node >= num_agents
                                THEN total_duration + At(tasks, node - num_agents).duration
                                ELSE total_duration
           /\ previous_index' = index
           /\ index' = nxt
           /\ total_distance' = total_distance + simple_arc(index, nxt)
    /\ UNCHANGED <<inputs, pc, routes, solution, agent_index, last_location,
                   visited_nodes, report, unassigned_tasks>>

NextAgent ==
    IF agent_index + 1 < num_agents
    THEN /\ agent_index' = agent_index + 1
         /\ index' = Start(agent_index + 1)
         /\ route' = <<>>
         /\ total_distance' = 0
         /\ total_duration' = 0
         /\ pc' = pc
    ELSE /\ pc' = "unassigned"
         /\ UNCHANGED <<agent_index, index, route, total_distance, total_duration>>

SimpleFinishAgent ==
    /\ pc = "walk" /\ variant = "simple"
    /\ IsEnd(index)
    /\ report' = Append(report,
           [agent |-> agent_index, route |-> route,
            total_distance |-> total_distance, total_duration |-> total_duration,
            end_location |-> At(locations, IndexToNode(previous_index))])
    /\ NextAgent
    /\ UNCHANGED <<inputs, routes, solution, previous_index, last_location,
                   visited_nodes, unassigned_tasks>>

simple_unassigned ==
    LET un == SelectSeq([k \in 1..(num_locations - num_agents) |-> num_agents + k - 1],
                        LAMBDA task_index :
                            At(solution, NodeToIndex(task_index)) = NodeToIndex(task_index))
    IN  [k \in 1..Len(un) |-> At(tasks, un[k] - num_agents).id]

SimpleUnassigned ==
    /\ pc = "unassigned" /\ variant = "simple"
    /\ unassigned_tasks' = simple_unassigned
    /\ pc' = "done"
    /\ UNCHANGED <<inputs, routes, solution, walk, report>>

----------------------------------------------------------------------------
(* SolutionDecoder, pd program *)

PickupEntry(id) == <<"Task", id, "(Pickup -> Delivery)">>
SingleEntry(id) == <<"Task", id>>

(* variation: only the pickup node is marked visited *)
RECURSIVE pd_group_pickup_only(_, _, _, _)
pd_group_pickup_only(pairs, node, task, acc) ==
    IF pairs = <<>> THEN acc
    ELSE IF node = Head(pairs)[1]
         THEN [acc EXCEPT !.route = Append(@, PickupEntry(task.id)),
                          !.visited_nodes = @ \cup {Head(pairs)[1]}]
         ELSE pd_group_pickup_only(Tail(pairs), node, task, acc)

(* for pickup, drop in pickup_delivery_indices: if node == pickup: ...; break *)
RECURSIVE pd_group(_, _, _, _)
pd_group(pairs, node, task, acc) ==
    IF pairs = <<>> THEN acc
    ELSE IF node = Head(pairs)[1]
         THEN [acc EXCEPT !.route = Append(@, PickupEntry(task.id)),
                          !.visited_nodes = @ \cup {Head(pairs)[1], Head(pairs)[2]}]
         ELSE pd_group(Tail(pairs), node, task, acc)

(* for location_index, task in task_indices: if node == location_index: ... *)
RECURSIVE pd_visit(_, _, _)
pd_visit(ti, node, acc) ==
    IF ti = <<>> THEN acc
    ELSE LET task == Head(ti)[2]
         IN  IF node = Head(ti)[1]
             THEN LET a1 == IF task.type = "pickup_delivery"
                            THEN pd_group(pickup_delivery_indices, node, task, acc)
                            ELSE [acc EXCEPT !.route = Append(@, SingleEntry(task.id)),
                                             !.visited_nodes = @ \cup {node}]
                  IN  pd_visit(Tail(ti), node,
                               [a1 EXCEPT !.total_duration = @ + task.duration])
             ELSE pd_visit(Tail(ti), node, acc)

(* what the walk adds to total_distance on the step from previous to nxt *)
pd_arc(previous, nxt) ==
    At(At(distance_matrix, IndexToNode(previous)), IndexToNode(nxt))

PdWalkStep ==
    /\ pc = "walk" /\ variant = "pd"
    /\ ~IsEnd(index)
    /\ LET node == IndexToNode(index)
           acc0 == [route |-> route, visited_nodes |-> visited_nodes,
                    total_duration |-> total_duration]
           acc == IF node \notin visited_nodes
                  THEN pd_visit(task_indices, node, acc0)
                  ELSE acc0
           nxt == At(solution, index)
       IN  /\ route' = acc.route
           /\ visited_nodes' = acc.visited_nodes
           /\ total_duration' = acc.total_duration
           /\ previous_index' = index
           /\ index' = nxt
           /\ total_distance' = total_distance + pd_arc(index, nxt)
           /\ last_location' = IndexToNode(index)
    /\ UNCHANGED <<inputs, pc, routes, solution, agent_index, report, unassigned_tasks>>

PdFinishAgent ==
    /\ pc = "walk" /\ variant = "pd"
    /\ IsEnd(index)
    /\ LET last == IF last_location = None
                   THEN IndexToNode(Start(agent_index))
                   ELSE last_location
       IN  report' = Append(report,
               [agent |-> agent_index, route |-> route,
                total_distance |-> total_distance, total_duration |-> total_duration,
                end_location |-> At(locations, last)])
    /\ NextAgent
    /\ last_location' = None
    /\ UNCHANGED <<inputs, routes, solution, previous_index, visited_nodes,
                   unassigned_tasks>>

RECURSIVE pd_unassigned(_)
pd_unassigned(ti) ==
    IF ti = <<>> THEN <<>>
    ELSE LET location_index == Head(ti)[1]
             task == Head(ti)[2]
         IN  IF At(solution, NodeToIndex(location_index)) = NodeToIndex(location_index)
             THEN <<task.id>> \o pd_unassigned(Tail(ti))
             ELSE pd_unassigned(Tail(ti))

PdUnassigned ==
    /\ pc = "unassigned" /\ variant = "pd"
    /\ unassigned_tasks' = pd_unassigned(task_indices)
    /\ pc' = "done"
    /\ UNCHANGED <<inputs, routes, solution, walk, report>>

----------------------------------------------------------------------------
(* What the properties speak of *)

Returned == pc \in {"walk", "unassigned", "done"}

(* per task node, in node order: the task it belongs to and its role there *)
RECURSIVE Owners(_)
Owners(ts) ==
    IF ts = <<>> THEN <<>>
    ELSE IF Head(ts).type = "pickup_delivery"
         THEN << [task |-> Head(ts), role |-> "pickup"],
                 [task |-> Head(ts), role |-> "drop"] >> \o Owners(Tail(ts))
         ELSE << [task |-> Head(ts), role |-> "single"] >> \o Owners(Tail(ts))

Owner(node) == At(Owners(tasks), node - num_agents)

TaskById(id) == CHOOSE t \in Range(tasks) : t.id = id

(* the task id a route entry of the output names *)
EntryId(e) == IF variant = "simple" THEN e ELSE e[2]

(* the index sequence the returned NextVars give from index i to an end *)
RECURSIVE Follow(_)
Follow(i) == IF IsEnd(i) THEN <<i>> ELSE <<i>> \o Follow(At(solution, i))

AgentPath(v) == Follow(Start(v))

(* the task nodes on vehicle v's returned path, in visiting order *)
Stops(v) == SelectSeq(AgentPath(v), LAMBDA i : ~IsEnd(i) /\ IndexToNode(i) >= num_agents)

SelfLoop(node) == At(solution, NodeToIndex(node)) = NodeToIndex(node)

Count(s, x) == Len(SelectSeq(s, LAMBDA e : e = x))

Occurrences(rt, id) == Len(SelectSeq(rt, LAMBDA e : EntryId(e) = id))

AllOccurrences(id) == Sum([k \in 1..Len(report) |-> Occurrences(report[k].route, id)])

Listed(id) == Count(unassigned_tasks, id) >= 1

Eligible(v, task) ==
    /\ task.skill \in agents[v + 1].skills
    /\ variant = "simple" => task.pincode \in agents[v + 1].allowed_locations

NoEligibleAgent(task) == \A v \in Agents : ~Eligible(v, task)

(* the sum of the distance-matrix entries over the first n arcs of path p *)
ArcSum(p, n) ==
    Sum([k \in 1..n |-> At(At(distance_matrix, IndexToNode(p[k])), IndexToNode(p[k + 1]))])

RouteDuration(rt) == Sum([k \in 1..Len(rt) |-> TaskById(EntryId(rt[k])).duration])

----------------------------------------------------------------------------
(* C1: when decoding is over, every task id is either in exactly one       *)
(* agent's route, exactly once, and not in the unassigned list, or in no   *)
(* route and in the unassigned list.                                       *)
C1_RouteXorUnassigned ==
    pc = "done" =>
        \A t \in 1..Len(tasks) :
            LET id == tasks[t].id
            IN  \/ AllOccurrences(id) = 1 /\ ~Listed(id)
                \/ AllOccurrences(id) = 0 /\ Listed(id)

C1_Witness ==
    /\ pc = "done" /\ variant = "pd"
    /\ \E t, u \in 1..Len(tasks) :
        /\ tasks[t].type = "pickup_delivery"
        /\ AllOccurrences(tasks[t].id) = 1
        /\ Listed(tasks[u].id)

(* C2: every reported total duration is the sum of the durations of the    *)
(* tasks of the reported route and is at most the agent's availability.    *)
C2_DurationWithinAvailability ==
    \A k \in 1..Len(report) :
        /\ report[k].total_duration = RouteDuration(report[k].route)
        /\ report[k].total_duration <= agents[report[k].agent + 1].availability

(* capacity binds: a task the agent is eligible for stays out because the  *)
(* agent's availability does not cover it on top of what it carries        *)
C2_Witness ==
    /\ pc = "done"
    /\ \E k \in 1..Len(report) : \E t \in 1..Len(tasks) :
        /\ report[k].total_duration > 0
        /\ Listed(tasks[t].id)
        /\ Eligible(report[k].agent, tasks[t])
        /\ report[k].total_duration + tasks[t].duration
              > agents[report[k].agent + 1].availability

(* C3: in every returned assignment, the pickup node and the drop node of  *)
(* a pickup-delivery task are both left out, or both on one agent's path   *)
(* with the pickup node before the drop node.                              *)
C3_PickupBeforeDropSameAgent ==
    (Returned /\ variant = "pd") =>
        \A n \in TaskNodes :
            Owner(n).role = "pickup" =>
                \/ SelfLoop(n) /\ SelfLoop(n + 1)
                \/ \E v \in Agents :
                    LET path == AgentPath(v)
                    IN  /\ NodeToIndex(n) \in Range(path)
                        /\ NodeToIndex(n + 1) \in Range(path)
                        /\ Position(path, NodeToIndex(n))
                              < Position(path, NodeToIndex(n + 1))

(* a pickup-delivery task served with another stop between pickup and drop *)
C3_Witness ==
    /\ pc = "done" /\ variant = "pd"
    /\ \E n \in TaskNodes : \E v \in Agents :
        /\ Owner(n).role = "pickup"
        /\ NodeToIndex(n) \in Range(AgentPath(v))
        /\ Position(AgentPath(v), NodeToIndex(n + 1))
              > Position(AgentPath(v), NodeToIndex(n)) + 1

(* C4: every node on an agent's returned path, and every entry of its      *)
(* reported route, belongs to a task the agent is eligible for (skill, and *)
(* in the simple program pincode too); and every agent not eligible for a  *)
(* task is removed from the vehicle domain of each of its nodes.           *)
C4_OnlyEligibleAgents ==
    /\ \A n \in TaskNodes : \A v \in Agents :
          ~Eligible(v, Owner(n).task) => <<NodeToIndex(n), v>> \in removed_values
    /\ Returned =>
          \A v \in Agents : \A k \in 1..Len(Stops(v)) :
              Eligible(v, Owner(IndexToNode(Stops(v)[k])).task)
    /\ \A k \in 1..Len(report) : \A j \in 1..Len(report[k].route) :
          Eligible(report[k].agent, TaskById(EntryId(report[k].route[j])))

(* a task is on the route of one agent while another agent, with capacity  *)
(* to spare for it, is not eligible for it                                 *)
C4_Witness ==
    /\ pc = "done"
    /\ \E k, m \in 1..Len(report) : \E j \in 1..Len(report[k].route) :
        LET task == TaskById(EntryId(report[k].route[j]))
        IN  /\ ~Eligible(report[m].agent, task)
            /\ report[m].route = <<>>
            /\ task.duration * 2 <= agents[report[m].agent + 1].availability

(* C5: the assignment that leaves every task out is accepted by the model, *)
(* so a solution exists; and in every returned assignment a task no agent  *)
(* is eligible for has all its nodes left out, is in no route, and is      *)
(* listed as unassigned.                                                   *)
C5_NoEligibleAgentForcesUnassigned ==
    /\ Feasible([a \in 1..num_agents |-> <<>>])
    /\ Returned =>
          \A n \in TaskNodes : NoEligibleAgent(Owner(n).task) => SelfLoop(n)
    /\ pc = "done" =>
          \A t \in 1..Len(tasks) :
              NoEligibleAgent(tasks[t]) =>
                  Listed(tasks[t].id) /\ AllOccurrences(tasks[t].id) = 0

(* a pickup-delivery task without an eligible agent is left out while      *)
(* another task of the same input is served                                *)
C5_Witness ==
    /\ pc = "done" /\ variant = "pd"
    /\ \E t, u \in 1..Len(tasks) :
        /\ tasks[t].type = "pickup_delivery"
        /\ NoEligibleAgent(tasks[t])
        /\ Listed(tasks[t].id)
        /\ AllOccurrences(tasks[u].id) = 1

(* the route entries the stops s stand for: one per stop that is no drop   *)
ExpectedRoute(s) ==
    LET heads == SelectSeq(s, LAMBDA i : Owner(IndexToNode(i)).role # "drop")
    IN  [k \in 1..Len(heads) |->
            IF Owner(IndexToNode(heads[k])).role = "pickup"
            THEN PickupEntry(Owner(IndexToNode(heads[k])).task.id)
            ELSE SingleEntry(Owner(IndexToNode(heads[k])).task.id)]

(* the stops of the agent being walked that the walk has passed *)
Passed ==
    LET s == Stops(agent_index)
    IN  IF IsEnd(index) THEN s
        ELSE IF index = Start(agent_index) THEN <<>>
        ELSE SubSeq(s, 1, Position(s, index) - 1)

(* C6: in the pd program the route holds one entry per served task, added  *)
(* at its pickup node (or its only node) and none at a drop node, and the  *)
(* total duration counts each served task once; during the walk and in     *)
(* every reported line.                                                    *)
C6_OneEntryOneDuration ==
    variant = "pd" =>
        /\ pc = "walk" =>
              /\ route = ExpectedRoute(Passed)
              /\ total_duration = RouteDuration(route)
        /\ \A k \in 1..Len(report) :
              /\ report[k].route = ExpectedRoute(Stops(report[k].agent))
              /\ report[k].total_duration = RouteDuration(report[k].route)
              /\ \A t \in 1..Len(tasks) :
                    Occurrences(report[k].route, tasks[t].id) =
                        IF \E j \in 1..Len(Stops(report[k].agent)) :
                              Owner(IndexToNode(Stops(report[k].agent)[j])).task = tasks[t]
                        THEN 1 ELSE 0

(* a line reporting a pickup-delivery task and a simple task together *)
C6_Witness ==
    /\ variant = "pd"
    /\ \E k \in 1..Len(report) :
        /\ Len(report[k].route) = 2
        /\ Len(Stops(report[k].agent)) = 3
        /\ report[k].total_duration = 70

(* C7, as claimed: a task is in the unassigned list iff its (pickup) node  *)
(* is a self-loop, and then exactly once.                                  *)
C7_ListedOncePerUnassignedTask ==
    pc = "done" =>
        \A n \in TaskNodes :
            Owner(n).role # "drop" =>
                Count(unassigned_tasks, Owner(n).task.id) = IF SelfLoop(n) THEN 1 ELSE 0

(* the tasks left out of the returned assignment *)
UnassignedTaskSet == {t \in 1..Len(tasks) : AllOccurrences(tasks[t].id) = 0}

(* C8, as claimed: the objective of the returned assignment is the sum of  *)
(* the integer arc costs of all agents' paths plus the penalty once per    *)
(* task left out.                                                          *)
C8_PenaltyOncePerTask ==
    pc = "done" =>
        Objective(routes) =
            Sum([a \in 1..num_agents |->
                    Sum([k \in 1..(Len(AgentPath(a - 1)) - 1) |->
                            distance_callback(AgentPath(a - 1)[k], AgentPath(a - 1)[k + 1])])])
            + penalty * Cardinality(UnassignedTaskSet)

Unmoved(rec) ==
    Stops(rec.agent) = <<>> =>
        /\ rec.total_distance = 0
        /\ rec.total_duration = 0
        /\ rec.route = <<>>
        /\ rec.end_location = agents[rec.agent + 1].location

(* C9, as claimed: every reported total distance is the sum over every arc *)
(* of the agent's path, start to end, in both programs.                    *)
C9_EveryArcCounted ==
    \A k \in 1..Len(report) :
        LET p == AgentPath(report[k].agent)
        IN  /\ report[k].total_distance = ArcSum(p, Len(p) - 1)
            /\ Unmoved(report[k])

(* C9, amended: the pd program sums every arc of the path, the arc into    *)
(* the end node included; the simple program sums every arc but that last  *)
(* one, for every agent; an agent with no stop is reported with distance   *)
(* 0, duration 0, an empty route and its own start as end location.        *)
C9_LastArcOnlyInPd ==
    \A k \in 1..Len(report) :
        LET p == AgentPath(report[k].agent)
        IN  /\ variant = "pd" => report[k].total_distance = ArcSum(p, Len(p) - 1)
            /\ variant = "simple" => report[k].total_distance = ArcSum(p, Len(p) - 2)
            /\ Unmoved(report[k])

(* an agent of the simple program that comes back from a stop away from    *)
(* its start, and in the same output an agent that never moved             *)
C9_Witness ==
    /\ variant = "simple"
    /\ \E k, m \in 1..Len(report) :
        /\ Len(Stops(report[k].agent)) = 2
        /\ ArcSum(AgentPath(report[k].agent), 3) > report[k].total_distance
        /\ report[k].total_distance > 0
        /\ Stops(report[m].agent) = <<>>

(* the durations of the pickup-delivery tasks of a reported route *)
PdDuration(rt) ==
    Sum([k \in 1..Len(rt) |->
            IF TaskById(EntryId(rt[k])).type = "pickup_delivery"
            THEN TaskById(EntryId(rt[k])).duration ELSE 0])

(* C10: in the pd program the reported total duration plus the durations   *)
(* of the route's pickup-delivery tasks is at most the availability, and   *)
(* a pickup-delivery task of duration d is only on the route of an agent   *)
(* with availability at least 2*d.                                         *)
C10_PickupDeliveryChargedTwice ==
    variant = "pd" =>
        \A k \in 1..Len(report) :
            /\ report[k].total_duration + PdDuration(report[k].route)
                  <= agents[report[k].agent + 1].availability
            /\ \A j \in 1..Len(report[k].route) :
                  TaskById(EntryId(report[k].route[j])).type = "pickup_delivery" =>
                      2 * TaskById(EntryId(report[k].route[j])).duration
                          <= agents[report[k].agent + 1].availability

(* a pickup-delivery task stays out although a skilled agent's             *)
(* availability covers its duration once                                   *)
C10_Witness ==
    /\ pc = "done" /\ variant = "pd"
    /\ \E t \in 1..Len(tasks) : \E v \in Agents :
        /\ tasks[t].type = "pickup_delivery"
        /\ Eligible(v, tasks[t])
        /\ tasks[t].duration <= agents[v + 1].availability
        /\ 2 * tasks[t].duration > agents[v + 1].availability
        /\ Listed(tasks[t].id)
        /\ \E k \in 1..Len(report) : report[k].agent = v /\ report[k].route = <<>>
    /\ \E k \in 1..Len(report) : PdDuration(report[k].route) > 0

----------------------------------------------------------------------------
Next ==
    \/ \E a \in Agents : \E i \in TaskNodes : Insert(a, i)
    \/ SolveReturn
    \/ NoSolution
    \/ SimpleWalkStep
    \/ SimpleFinishAgent
    \/ SimpleUnassigned
    \/ PdWalkStep
    \/ PdFinishAgent
    \/ PdUnassigned

Spec == Init /\ [][Next]_vars
====
